---- MODULE Spec2Model ----
(***************************************************************************)
(* Model of src/warehouse_flow.py: the rack ledger (RackLedger), the Order *)
(* and Item records, and the order workflow (OrderWorkflow) with its       *)
(* driver run().                                                           *)
(*                                                                         *)
(* Python values are represented as follows:                               *)
(*   - str            : a TLA+ string                                      *)
(*   - Optional[T]    : a sequence of length 0 (None) or 1 (the value)     *)
(*   - dict           : a function whose DOMAIN is the set of keys         *)
(*   - list           : a sequence                                         *)
(*   - now_iso()      : the value of the clock variable now                *)
(***************************************************************************)
EXTENDS Naturals, Sequences, FiniteSets, TLC

VARIABLES
    racks,            \* RackLedger.racks: dict rack_id -> list of sku
    locations,        \* RackLedger.locations: dict sku -> location string
    persist_csv,      \* RackLedger.persist_csv
    csv,              \* rows of the file LEDGER_CSV
    now,              \* the wall clock read by now_iso()
    auto,             \* OrderWorkflow.auto
    simulate_decline, \* OrderWorkflow.simulate_decline
    orders,           \* the Order objects, by order_id
    pc,               \* per order: position of run()
    target,           \* per order: the initial_rack argument of run(), and whether
                      \* that rack was registered when run was called
    blocked,          \* per order: the input() call the flow is blocked in
    decision,         \* per order: local variable decision of manager_approval
    calls,            \* number of direct calls made: transition methods called
                      \* outside run(), ledger mutations begun by a thread
    mutating          \* per thread: the ledger mutation it is executing and the
                      \* line it is at

vars == <<racks, locations, persist_csv, csv, now, auto, simulate_decline,
          orders, pc, target, blocked, decision, calls, mutating>>

ledgerVars == <<racks, locations, csv>>
flowVars == <<orders, pc, target, blocked, decision, calls>>
configVars == <<persist_csv, auto, simulate_decline>>

----------------------------------------------------------------------------
(* Bounds of the model *)

\* the clock takes the values 0..MaxClock
MaxClock == 1
\* direct ledger calls are made while the log holds fewer than MaxLog data rows
MaxLog == 2
\* transition methods called directly (outside run) per behaviour
MaxCalls == 1
\* ledger mutations begun by the concurrent threads per behaviour
MaxMutations == 2
\* ledger calls per behaviour where the calls are counted
MaxOps == 4

\* input domains
SKUs == {"SKU-1", "SKU-2"}
RackIds == {"A1", "A2", ""}
OrderIds == {"ORD-1", "ORD-2"}
Barcodes == {"BC1", "BC2"}

----------------------------------------------------------------------------
(* Domain constants, warehouse_flow.py lines 25-40 *)

STATUS_ITEM_IN_PROCESS == "item in process of the order"
STATUS_READY_TO_PACK == "ready to pack"
STATUS_PACKAGE_LABELLED == "package labelled"
STATUS_READY_TO_BE_PICKED == "ready to be picked"
STATUS_AWAITING_APPROVAL == "awaiting manager approval"
STATUS_APPROVAL_DECLINED == "declined by manager"
STATUS_APPROVAL_GRANTED == "approved by manager"
STATUS_PACKAGE_LOADED == "package loaded"

STATION_WAREHOUSE_RACKS == "warehouse-racks"
STATION_PACKING == "packing-station"
STATION_SORTING == "sorting-collation-station"
STATION_AUDIT == "manager-audit-station"
STATION_LOADING == "truck-loading-dock"

Stations == {STATION_WAREHOUSE_RACKS, STATION_PACKING, STATION_SORTING,
             STATION_AUDIT, STATION_LOADING}

\* Optional[T]
None == <<>>
Some(x) == <<x>>

\* Python truthiness of an Optional[str]: None and "" are falsy
Truthy(opt) == opt # None /\ opt[1] # ""

\* dict helpers
EmptyDict == [k \in {} |-> <<>>]
DictGet(d, k, default) == IF k \in DOMAIN d THEN d[k] ELSE default
DictSet(d, k, v) == [x \in DOMAIN d \cup {k} |-> IF x = k THEN v ELSE d[x]]

\* list helpers
InList(x, s) == \E i \in 1..Len(s) : s[i] = x
FirstIndex(x, s) == CHOOSE i \in 1..Len(s) : s[i] = x /\ \A j \in 1..(i-1) : s[j] # x
\* list.remove(x): deletes the first occurrence
ListRemove(s, x) ==
    LET i == FirstIndex(x, s)
    IN  SubSeq(s, 1, i-1) \o SubSeq(s, i+1, Len(s))

\* str(list of str), e.g. "['SKU-1', 'SKU-2']"
RECURSIVE PyItems(_)
PyItems(s) ==
    IF Len(s) = 0 THEN ""
    ELSE IF Len(s) = 1 THEN "'" \o s[1] \o "'"
    ELSE "'" \o s[1] \o "', " \o PyItems(Tail(s))
PyListRepr(s) == "[" \o PyItems(s) \o "]"

----------------------------------------------------------------------------
(* RackLedger, warehouse_flow.py lines 91-139 *)

CsvHeader == <<"timestamp", "sku", "location", "rack_contents_snapshot">>

\* _init_csv: opens the file in mode "w" and writes the header row
init_csv == <<CsvHeader>>

\* _snapshot_rack on the rack contents rk
snapshot_rack(rk, rack_id) == rack_id \o ": " \o PyListRepr(DictGet(rk, rack_id, <<>>))

\* _log_csv(sku, location, rack_id) with the rack contents rk at the call
log_csv(rk, sku, location, rack_id) ==
    IF ~persist_csv THEN csv
    ELSE LET snapshot == IF Truthy(rack_id) THEN snapshot_rack(rk, rack_id[1]) ELSE ""
         IN  Append(csv, <<now, sku, location, snapshot>>)

\* the location string f"{STATION_WAREHOUSE_RACKS}:{rack_id}"
RackLocation(rack_id) == STATION_WAREHOUSE_RACKS \o ":" \o rack_id

\* RackLedger(persist_csv=persist): __init__, lines 94-99. With persist the
\* file is opened in mode "w", which empties it, and the header is written
RackLedger(persist) ==
    /\ racks' = EmptyDict
    /\ locations' = EmptyDict
    /\ persist_csv' = persist
    /\ csv' = IF persist THEN init_csv ELSE csv

\* racks after register_rack(rack_id): dict.setdefault(rack_id, [])
\* register_rack assigning [] in place of setdefault
registered_resets(rk, rack_id) == DictSet(rk, rack_id, <<>>)

registered(rk, rack_id) == IF rack_id \in DOMAIN rk THEN rk ELSE DictSet(rk, rack_id, <<>>)

register_rack(rack_id) ==
    /\ racks' = registered(racks, rack_id)
    /\ UNCHANGED <<locations, csv>>

\* add_item_to_rack without the membership test of line 123
add_item_to_rack_always_appends(sku, rack_id) ==
    LET rk1 == registered(racks, rack_id)
        rk2 == [rk1 EXCEPT ![rack_id] = Append(@, sku)]
        loc == DictSet(locations, sku, RackLocation(rack_id))
    IN  /\ racks' = rk2
        /\ locations' = loc
        /\ csv' = log_csv(rk2, sku, loc[sku], Some(rack_id))

add_item_to_rack(sku, rack_id) ==
    LET rk1 == registered(racks, rack_id)
        rk2 == IF ~InList(sku, rk1[rack_id])
               THEN [rk1 EXCEPT ![rack_id] = Append(@, sku)]
               ELSE rk1
        loc == DictSet(locations, sku, RackLocation(rack_id))
    IN  /\ racks' = rk2
        /\ locations' = loc
        /\ csv' = log_csv(rk2, sku, loc[sku], Some(rack_id))

\* remove_item_from_rack reading the rack with setdefault in place of get
remove_item_from_rack_registers(sku, rack_id, new_location) ==
    LET rk0 == registered(racks, rack_id)
        rk == IF InList(sku, rk0[rack_id])
              THEN [rk0 EXCEPT ![rack_id] = ListRemove(@, sku)]
              ELSE rk0
    IN  /\ racks' = rk
        /\ locations' = DictSet(locations, sku, new_location)
        /\ csv' = log_csv(rk, sku, new_location, Some(rack_id))

remove_item_from_rack(sku, rack_id, new_location) ==
    LET rk == IF InList(sku, DictGet(racks, rack_id, <<>>))
              THEN [racks EXCEPT ![rack_id] = ListRemove(@, sku)]
              ELSE racks
    IN  /\ racks' = rk
        /\ locations' = DictSet(locations, sku, new_location)
        /\ csv' = log_csv(rk, sku, new_location, Some(rack_id))

update_item_location(sku, new_location) ==
    /\ locations' = DictSet(locations, sku, new_location)
    /\ csv' = log_csv(racks, sku, new_location, None)
    /\ UNCHANGED racks

\* find_item: dict.get(sku), None when absent
\* find_item with a default location in place of None
find_item_defaults(sku) ==
    IF sku \in DOMAIN locations THEN Some(locations[sku]) ELSE Some(STATION_WAREHOUSE_RACKS)

find_item(sku) == IF sku \in DOMAIN locations THEN Some(locations[sku]) ELSE None

----------------------------------------------------------------------------
(* Item and Order, warehouse_flow.py lines 56-86 *)

\* Item(sku=..., description=...) with the dataclass defaults
Item(sku) ==
    [sku |-> sku, rack |-> None, location |-> STATION_WAREHOUSE_RACKS, barcode |-> None]

\* Order(order_id=..., item=...) with the dataclass defaults
Order(order_id, item) ==
    [order_id |-> order_id, item |-> item,
     current_status |-> STATUS_ITEM_IN_PROCESS,
     status_history |-> <<>>, label |-> None]

ShippingLabel(from_address, to_address, barcode) ==
    [from_address |-> from_address, to_address |-> to_address, barcode |-> barcode]

\* Order.update_status applied to the Order value ord
update_status(ord, new_status) ==
    [ord EXCEPT !.current_status = new_status,
                !.status_history = Append(@, <<now, new_status>>)]

----------------------------------------------------------------------------
(* Operator input at the approval prompt: a line of characters *)

Inputs == {<<"A">>, <<"d">>, <<" ", "a">>, <<"D", " ">>, <<"x">>, <<>>}

IsSpace(c) == c \in {" ", "\t"}

\* str.strip(): drops leading and trailing whitespace
RECURSIVE LStrip(_)
LStrip(s) == IF Len(s) > 0 /\ IsSpace(s[1]) THEN LStrip(Tail(s)) ELSE s
RECURSIVE RStrip(_)
RStrip(s) == IF Len(s) > 0 /\ IsSpace(s[Len(s)]) THEN RStrip(SubSeq(s, 1, Len(s)-1)) ELSE s
Strip(s) == RStrip(LStrip(s))

\* str.upper() on the characters the inputs use
UpperChar(c) == IF c = "a" THEN "A" ELSE IF c = "d" THEN "D" ELSE IF c = "x" THEN "X" ELSE c
Upper(s) == [i \in 1..Len(s) |-> UpperChar(s[i])]

\* the literals "A" and "D" as lines of characters
KeyA == <<"A">>
KeyD == <<"D">>

----------------------------------------------------------------------------
(* OrderWorkflow, warehouse_flow.py lines 153-254 *)

\* _wait_next: returns at once in auto mode (after sleeping), else blocks in input()
wait_next(o) == blocked' = [blocked EXCEPT ![o] = IF auto THEN "none" ELSE "pace"]

receive_order_and_locate_item(o, target_rack) ==
    LET ord1 == [orders[o] EXCEPT !.item.location = STATION_WAREHOUSE_RACKS,
                                  !.item.rack = Some(target_rack)]
    IN  /\ add_item_to_rack(ord1.item.sku, target_rack)
        /\ orders' = [orders EXCEPT ![o] = update_status(ord1, STATUS_ITEM_IN_PROCESS)]
        /\ wait_next(o)

\* move_to_packing_station over a ledger that registers the rack it is given
move_to_packing_station_registers(o) ==
    LET ord0 == orders[o]
        rack_id == IF Truthy(ord0.item.rack) THEN ord0.item.rack[1] ELSE "UNKNOWN"
        ord1 == [ord0 EXCEPT !.item.rack = None, !.item.location = STATION_PACKING]
    IN  /\ remove_item_from_rack_registers(ord0.item.sku, rack_id, STATION_PACKING)
        /\ orders' = [orders EXCEPT ![o] = update_status(ord1, STATUS_READY_TO_PACK)]
        /\ wait_next(o)

move_to_packing_station(o) ==
    LET ord0 == orders[o]
        rack_id == IF Truthy(ord0.item.rack) THEN ord0.item.rack[1] ELSE "UNKNOWN"
        ord1 == [ord0 EXCEPT !.item.rack = None, !.item.location = STATION_PACKING]
    IN  /\ remove_item_from_rack(ord0.item.sku, rack_id, STATION_PACKING)
        /\ orders' = [orders EXCEPT ![o] = update_status(ord1, STATUS_READY_TO_PACK)]
        /\ wait_next(o)

\* label_package reporting the packing station to the ledger
label_package_relocates(o, from_address, to_address) ==
    \E code \in Barcodes :
        LET ord1 == [orders[o] EXCEPT
                        !.item.barcode = Some(code),
                        !.label = Some(ShippingLabel(from_address, to_address, code))]
        IN  /\ orders' = [orders EXCEPT ![o] = update_status(ord1, STATUS_PACKAGE_LABELLED)]
            /\ wait_next(o)
            /\ update_item_location(ord1.item.sku, STATION_PACKING)

label_package(o, from_address, to_address) ==
    \E code \in Barcodes :
        LET ord1 == [orders[o] EXCEPT
                        !.item.barcode = Some(code),
                        !.label = Some(ShippingLabel(from_address, to_address, code))]
        IN  /\ orders' = [orders EXCEPT ![o] = update_status(ord1, STATUS_PACKAGE_LABELLED)]
            /\ wait_next(o)
            /\ UNCHANGED ledgerVars

\* sort_and_collate recording the status of the step before it
sort_and_collate_stale_status(o) ==
    LET ord1 == [orders[o] EXCEPT !.item.location = STATION_SORTING]
    IN  /\ update_item_location(ord1.item.sku, STATION_SORTING)
        /\ orders' = [orders EXCEPT ![o] = update_status(ord1, STATUS_PACKAGE_LABELLED)]
        /\ wait_next(o)

sort_and_collate(o) ==
    LET ord1 == [orders[o] EXCEPT !.item.location = STATION_SORTING]
    IN  /\ update_item_location(ord1.item.sku, STATION_SORTING)
        /\ orders' = [orders EXCEPT ![o] = update_status(ord1, STATUS_READY_TO_BE_PICKED)]
        /\ wait_next(o)

\* manager_approval lines 224-231: the status recorded for a decision
decided(ord, d) ==
    IF d = KeyA THEN update_status(ord, STATUS_APPROVAL_GRANTED)
    ELSE update_status(ord, STATUS_APPROVAL_DECLINED)

\* manager_approval without the ledger update of line 210
manager_approval_no_ledger(o) ==
    LET ord1 == [orders[o] EXCEPT !.item.location = STATION_AUDIT]
        ord2 == update_status(ord1, STATUS_AWAITING_APPROVAL)
        d == IF simulate_decline THEN KeyD ELSE KeyA
    IN  /\ UNCHANGED ledgerVars
        /\ IF auto
           THEN /\ decision' = [decision EXCEPT ![o] = Some(d)]
                /\ orders' = [orders EXCEPT ![o] = decided(ord2, d)]
                /\ blocked' = [blocked EXCEPT ![o] = "none"]
           ELSE /\ decision' = [decision EXCEPT ![o] = None]
                /\ orders' = [orders EXCEPT ![o] = ord2]
                /\ blocked' = [blocked EXCEPT ![o] = "decision"]

\* manager_approval lines 210-222: up to the first input() in interactive
\* mode, the whole method in auto mode
manager_approval(o) ==
    LET ord1 == [orders[o] EXCEPT !.item.location = STATION_AUDIT]
        ord2 == update_status(ord1, STATUS_AWAITING_APPROVAL)
        d == IF simulate_decline THEN KeyD ELSE KeyA
    IN  /\ update_item_location(ord1.item.sku, STATION_AUDIT)
        /\ IF auto
           THEN /\ decision' = [decision EXCEPT ![o] = Some(d)]
                /\ orders' = [orders EXCEPT ![o] = decided(ord2, d)]
                /\ blocked' = [blocked EXCEPT ![o] = "none"]
           ELSE /\ decision' = [decision EXCEPT ![o] = None]
                /\ orders' = [orders EXCEPT ![o] = ord2]
                /\ blocked' = [blocked EXCEPT ![o] = "decision"]

\* manager_approval line 222: the decision read from the input line raw
read_decision(raw) == Upper(Strip(raw))

\* manager_approval returning without the update_status of lines 224-231
manager_input_no_status(o, raw) ==
    /\ decision' = [decision EXCEPT ![o] = Some(read_decision(raw))]
    /\ UNCHANGED orders
    /\ UNCHANGED ledgerVars

\* manager_approval without the loop of line 221: what is not "A" declines
manager_input_no_loop(o, raw) ==
    LET d == read_decision(raw)
    IN  /\ decision' = [decision EXCEPT ![o] = Some(d)]
        /\ orders' = [orders EXCEPT ![o] = decided(orders[o], d)]
        /\ UNCHANGED ledgerVars

\* manager_approval lines 221-231: one iteration of the input loop on the line
\* raw; the method returns when the decision read is "A" or "D"
manager_input(o, raw) ==
    LET d == read_decision(raw)
    IN  /\ decision' = [decision EXCEPT ![o] = Some(d)]
        /\ orders' = IF d \in {KeyA, KeyD}
                     THEN [orders EXCEPT ![o] = decided(orders[o], d)]
                     ELSE orders
        /\ UNCHANGED ledgerVars

\* load_to_truck without its update_status call
load_to_truck_no_status(o) ==
    LET ord1 == [orders[o] EXCEPT !.item.location = STATION_LOADING]
    IN  /\ update_item_location(ord1.item.sku, STATION_LOADING)
        /\ orders' = [orders EXCEPT ![o] = ord1]
        /\ UNCHANGED blocked

load_to_truck(o) ==
    LET ord1 == [orders[o] EXCEPT !.item.location = STATION_LOADING]
    IN  /\ update_item_location(ord1.item.sku, STATION_LOADING)
        /\ orders' = [orders EXCEPT ![o] = update_status(ord1, STATUS_PACKAGE_LOADED)]
        /\ UNCHANGED blocked

\* the return value of manager_approval
approved(o) == decision[o] = Some(KeyA)

----------------------------------------------------------------------------
(* The state after construction: a RackLedger, an OrderWorkflow over it and *)
(* one Order per order id, each with an Item of its own sku                 *)

SkuAssignments == {f \in [OrderIds -> SKUs] : \A a, b \in OrderIds : a # b => f[a] # f[b]}

Init ==
    /\ racks = EmptyDict
    /\ locations = EmptyDict
    /\ persist_csv \in BOOLEAN
    /\ csv = IF persist_csv THEN init_csv ELSE <<>>
    /\ now = 0
    /\ auto \in BOOLEAN
    /\ simulate_decline \in BOOLEAN
    /\ \E f \in SkuAssignments : orders = [o \in OrderIds |-> Order(o, Item(f[o]))]
    /\ pc = [o \in OrderIds |-> "idle"]
    /\ target = [o \in OrderIds |-> None]
    /\ blocked = [o \in OrderIds |-> "none"]
    /\ decision = [o \in OrderIds |-> None]
    /\ calls = 0
    /\ mutating = [o \in OrderIds |-> None]

\* the clock advances
Tick ==
    /\ now < MaxClock
    /\ now' = now + 1
    /\ UNCHANGED <<ledgerVars, flowVars, configVars, mutating>>

----------------------------------------------------------------------------
(* Direct calls of the ledger's methods *)

LogHasRoom == Len(csv) <= MaxLog

\* the new_location arguments of the direct calls: the racks station, the
\* first station of the flow and the last
NewLocations == {STATION_WAREHOUSE_RACKS, STATION_PACKING, STATION_LOADING}

\* a ledger on its own: the workflow over it is not used
InitLedger ==
    /\ Init
    /\ ~auto
    /\ ~simulate_decline
    /\ orders = [o \in OrderIds |-> Order(o, Item((CHOOSE f \in SkuAssignments : TRUE)[o]))]

LedgerRegister(rack_id) ==
    /\ register_rack(rack_id)
    /\ UNCHANGED <<flowVars, configVars, now, mutating>>

LedgerAdd(sku, rack_id) ==
    /\ LogHasRoom
    /\ add_item_to_rack(sku, rack_id)
    /\ UNCHANGED <<flowVars, configVars, now, mutating>>

LedgerRemove(sku, rack_id, new_location) ==
    /\ LogHasRoom
    /\ remove_item_from_rack(sku, rack_id, new_location)
    /\ UNCHANGED <<flowVars, configVars, now, mutating>>

LedgerUpdate(sku, new_location) ==
    /\ LogHasRoom
    /\ update_item_location(sku, new_location)
    /\ UNCHANGED <<flowVars, configVars, now, mutating>>

NextLedger ==
    \/ \E r \in RackIds : LedgerRegister(r)
    \/ \E s \in SKUs, r \in RackIds : LedgerAdd(s, r)
    \/ \E s \in SKUs, r \in RackIds, l \in NewLocations : LedgerRemove(s, r, l)
    \/ \E s \in SKUs, l \in NewLocations : LedgerUpdate(s, l)

SpecLedger == InitLedger /\ [][NextLedger]_vars

----------------------------------------------------------------------------
(* OrderWorkflow.run, warehouse_flow.py lines 241-254, as a process per     *)
(* order: pc names the next statement of run, blocked the input() call the  *)
(* flow waits in                                                            *)

\* the arguments of a call of run, as the ledger stands at the call
RunArgs(initial_rack) == [rack |-> initial_rack, registered |-> initial_rack \in DOMAIN racks]

\* run without the early return of lines 249-251
after_approval_no_return(d) == "load"

\* lines 249-254: run returns after a decline and goes on to load otherwise
after_approval(d) == IF d = KeyA THEN "load" ELSE "returned"

Ready(o, at) == pc[o] = at /\ blocked[o] = "none"
Goto(o, next) == pc' = [pc EXCEPT ![o] = next]

\* main lines 271-272: the racks are registered before the run
SetupRegister(rack_id) ==
    /\ \A o \in OrderIds : pc[o] = "idle"
    /\ register_rack(rack_id)
    /\ UNCHANGED <<flowVars, configVars, now, mutating>>

\* run is called with initial_rack; line 243
RunReceive(o, initial_rack) ==
    /\ Ready(o, "idle")
    /\ target' = [target EXCEPT ![o] = Some(RunArgs(initial_rack))]
    /\ receive_order_and_locate_item(o, initial_rack)
    /\ Goto(o, "move")
    /\ UNCHANGED <<decision, calls, configVars, now, mutating>>

\* line 244
RunMove(o) ==
    /\ Ready(o, "move")
    /\ move_to_packing_station(o)
    /\ Goto(o, "label")
    /\ UNCHANGED <<target, decision, calls, configVars, now, mutating>>

\* line 245
RunLabel(o) ==
    /\ Ready(o, "label")
    /\ label_package(o, "Dallas TX", "Seattle WA")
    /\ Goto(o, "sort")
    /\ UNCHANGED <<target, decision, calls, configVars, now, mutating>>

\* line 246
RunSort(o) ==
    /\ Ready(o, "sort")
    /\ sort_and_collate(o)
    /\ Goto(o, "approval")
    /\ UNCHANGED <<target, decision, calls, configVars, now, mutating>>

\* lines 248-253 in auto mode; line 248 up to the prompt in interactive mode
RunApproval(o) ==
    /\ Ready(o, "approval")
    /\ manager_approval(o)
    /\ Goto(o, IF ~auto THEN "decide" ELSE after_approval(IF simulate_decline THEN KeyD ELSE KeyA))
    /\ UNCHANGED <<target, calls, configVars, now, mutating>>

\* an input line at the approval prompt; lines 249-253 once manager_approval returns
RunDecide(o, raw) ==
    /\ pc[o] = "decide"
    /\ blocked[o] = "decision"
    /\ manager_input(o, raw)
    /\ IF read_decision(raw) \in {KeyA, KeyD}
       THEN /\ Goto(o, after_approval(read_decision(raw)))
            /\ IF after_approval(read_decision(raw)) = "load"
               THEN wait_next(o)
               ELSE blocked' = [blocked EXCEPT ![o] = "none"]
       ELSE UNCHANGED <<pc, blocked>>
    /\ UNCHANGED <<target, calls, configVars, now, mutating>>

\* line 254
RunLoad(o) ==
    /\ Ready(o, "load")
    /\ load_to_truck(o)
    /\ Goto(o, "returned")
    /\ UNCHANGED <<target, decision, calls, configVars, now, mutating>>

\* the operator answers the pacing prompt of _wait_next
Proceed(o) ==
    /\ blocked[o] = "pace"
    /\ blocked' = [blocked EXCEPT ![o] = "none"]
    /\ UNCHANGED <<ledgerVars, orders, pc, target, decision, calls, configVars, now, mutating>>

RunStep(o) ==
    \/ \E r \in RackIds : RunReceive(o, r)
    \/ RunMove(o)
    \/ RunLabel(o)
    \/ RunSort(o)
    \/ RunApproval(o)
    \/ \E raw \in Inputs : RunDecide(o, raw)
    \/ RunLoad(o)
    \/ Proceed(o)

\* one fresh Order processed by one call of run
NextRun ==
    \/ \E r \in RackIds : SetupRegister(r)
    \/ RunStep("ORD-1")
    \/ Tick

\* the interpreter executes the next statement of run, and the operator
\* answers the prompt the flow waits in
FairSpecRun == Init /\ [][NextRun]_vars /\ WF_vars(RunStep("ORD-1"))

SpecRun == Init /\ [][NextRun]_vars

----------------------------------------------------------------------------
(* The transition methods called on an Order directly, before or after a    *)
(* run, and run called again on an Order it has already processed           *)

NotRunning(o) == pc[o] \in {"idle", "returned"}
CanCall(o) == NotRunning(o) /\ blocked[o] = "none" /\ calls < MaxCalls
Called == calls' = calls + 1

CallReceive(o, target_rack) ==
    /\ CanCall(o)
    /\ receive_order_and_locate_item(o, target_rack)
    /\ Called
    /\ UNCHANGED <<pc, target, decision, configVars, now, mutating>>

CallMove(o) ==
    /\ CanCall(o)
    /\ move_to_packing_station(o)
    /\ Called
    /\ UNCHANGED <<pc, target, decision, configVars, now, mutating>>

CallLabel(o) ==
    /\ CanCall(o)
    /\ label_package(o, "Dallas TX", "Seattle WA")
    /\ Called
    /\ UNCHANGED <<pc, target, decision, configVars, now, mutating>>

CallSort(o) ==
    /\ CanCall(o)
    /\ sort_and_collate(o)
    /\ Called
    /\ UNCHANGED <<pc, target, decision, configVars, now, mutating>>

CallApproval(o) ==
    /\ CanCall(o)
    /\ manager_approval(o)
    /\ Called
    /\ UNCHANGED <<pc, target, configVars, now, mutating>>

\* an input line at the approval prompt of a direct manager_approval call
CallDecide(o, raw) ==
    /\ NotRunning(o)
    /\ blocked[o] = "decision"
    /\ manager_input(o, raw)
    /\ blocked' = [blocked EXCEPT ![o] =
                      IF read_decision(raw) \in {KeyA, KeyD} THEN "none" ELSE @]
    /\ UNCHANGED <<pc, target, calls, configVars, now, mutating>>

CallLoad(o) ==
    /\ CanCall(o)
    /\ load_to_truck(o)
    /\ Called
    /\ UNCHANGED <<pc, target, decision, configVars, now, mutating>>

\* run called on an Order that an earlier run has returned from
RunAgain(o, initial_rack) ==
    /\ pc[o] = "returned"
    /\ CanCall(o)
    /\ target' = [target EXCEPT ![o] = Some(RunArgs(initial_rack))]
    /\ receive_order_and_locate_item(o, initial_rack)
    /\ Goto(o, "move")
    /\ Called
    /\ UNCHANGED <<decision, configVars, now, mutating>>

CallStep(o) ==
    \/ \E r \in RackIds : CallReceive(o, r)
    \/ CallMove(o)
    \/ CallLabel(o)
    \/ CallSort(o)
    \/ CallApproval(o)
    \/ \E raw \in Inputs : CallDecide(o, raw)
    \/ CallLoad(o)
    \/ \E r \in RackIds : RunAgain(o, r)

NextFree ==
    \/ \E r \in RackIds : SetupRegister(r)
    \/ RunStep("ORD-1")
    \/ CallStep("ORD-1")

\* the two assignments of skus to the orders are symmetric: one is kept
InitFree ==
    /\ Init
    /\ orders = [o \in OrderIds |-> Order(o, Item((CHOOSE f \in SkuAssignments : TRUE)[o]))]

SpecFree == InitFree /\ [][NextFree]_vars

----------------------------------------------------------------------------
(* Properties *)

\* sku is in the contents of rack rack_id
OnRack(sku, rack_id) == rack_id \in DOMAIN racks /\ InList(sku, racks[rack_id])
\* locations[sku] is the rack-qualified string of rack rack_id
LocatedOnRack(sku, rack_id) == find_item(sku) = Some(RackLocation(rack_id))
AllRackIds == RackIds \cup DOMAIN racks

\* C1: after every ledger call, for every sku and rack R, locations[sku] is
\* 'warehouse-racks:R' if and only if sku is in racks[R], and then sku is in
\* the contents of no rack other than R.
C1_LedgerViewsAgree ==
    \A sku \in SKUs, R \in AllRackIds :
        /\ LocatedOnRack(sku, R) <=> OnRack(sku, R)
        /\ LocatedOnRack(sku, R) => \A Q \in AllRackIds \ {R} : ~OnRack(sku, Q)

\* C7: remove_item_from_rack(sku, rack_id, new_location) called when sku is
\* not in racks[rack_id] (rack unregistered, or registered without sku) is
\* defined, leaves the contents of every rack and the set of registered racks
\* as they were, and sets locations[sku] to new_location.
C7_RemoveAbsentIsNoOp ==
    [][\A sku \in SKUs, R \in RackIds, l \in NewLocations :
          (~OnRack(sku, R) /\ remove_item_from_rack(sku, R, l)) =>
              /\ racks' = racks
              /\ DOMAIN racks' = DOMAIN racks
              /\ sku \in DOMAIN locations'
              /\ locations'[sku] = l]_vars

\* C7 witness: remove_item_from_rack was called for a sku on a rack that is
\* not registered: the log row carries that rack's empty snapshot, the sku
\* is at the new location and no rack exists.
C7_Witness ==
    /\ racks = EmptyDict
    /\ persist_csv
    /\ Len(csv) = 2
    /\ csv[2] = <<0, "SKU-1", STATION_PACKING, "A1: []">>
    /\ find_item("SKU-1") = Some(STATION_PACKING)


\* the statuses of an Order's history, in order
StatusSeq(o) == [i \in 1..Len(orders[o].status_history) |-> orders[o].status_history[i][2]]
IsPrefix(a, b) == Len(a) <= Len(b) /\ SubSeq(b, 1, Len(a)) = a
SkuOf(o) == orders[o].item.sku
Returned(o) == pc[o] = "returned"
Declined(o) == decision[o] = Some(KeyD)

\* C2: in every reachable state of an Order, from construction on, the last
\* entry of status_history carries current_status, and every step only
\* appends to status_history.
C2_HistoryTracksStatus ==
    /\ [](\A o \in OrderIds :
            /\ Len(orders[o].status_history) > 0
            /\ StatusSeq(o)[Len(StatusSeq(o))] = orders[o].current_status)
    /\ [][\A o \in OrderIds :
            IsPrefix(orders[o].status_history, orders'[o].status_history)]_vars

\* C3: in a run whose approval decision is decline the Order never has status
\* PACKAGE_LOADED, PACKAGE_LOADED never enters status_history, and when the
\* decision is decline run has returned with APPROVAL_DECLINED as the last
\* history entry.
C3_DeclineNeverLoads ==
    \A o \in OrderIds :
        /\ ~approved(o) =>
              /\ orders[o].current_status # STATUS_PACKAGE_LOADED
              /\ ~InList(STATUS_PACKAGE_LOADED, StatusSeq(o))
        /\ Declined(o) =>
              /\ Returned(o)
              /\ orders[o].current_status = STATUS_APPROVAL_DECLINED
              /\ StatusSeq(o)[Len(StatusSeq(o))] = STATUS_APPROVAL_DECLINED

\* C3 witness: a run has returned after a decline.
C3_Witness ==
    /\ Declined("ORD-1")
    /\ Returned("ORD-1")
    /\ orders["ORD-1"].current_status = STATUS_APPROVAL_DECLINED

SeqApprove ==
    <<STATUS_ITEM_IN_PROCESS, STATUS_READY_TO_PACK, STATUS_PACKAGE_LABELLED,
      STATUS_READY_TO_BE_PICKED, STATUS_AWAITING_APPROVAL, STATUS_APPROVAL_GRANTED,
      STATUS_PACKAGE_LOADED>>
SeqDecline ==
    <<STATUS_ITEM_IN_PROCESS, STATUS_READY_TO_PACK, STATUS_PACKAGE_LABELLED,
      STATUS_READY_TO_BE_PICKED, STATUS_AWAITING_APPROVAL, STATUS_APPROVAL_DECLINED>>

\* C5: for a fresh Order processed by one call of run, the statuses of
\* status_history are at every moment a prefix of the approve sequence or of
\* the decline sequence.
C5_HistoryFollowsSequence ==
    \A o \in OrderIds :
        \/ IsPrefix(StatusSeq(o), SeqApprove)
        \/ IsPrefix(StatusSeq(o), SeqDecline)

\* C5 witness: the whole approve sequence has been recorded.
C5_Witness == StatusSeq("ORD-1") = SeqApprove

\* C6: once current_status is APPROVAL_DECLINED no operation changes
\* current_status or appends to status_history.
C6_DeclinedIsTerminal ==
    [][\A o \in OrderIds :
          orders[o].current_status = STATUS_APPROVAL_DECLINED =>
              /\ orders'[o].current_status = STATUS_APPROVAL_DECLINED
              /\ orders'[o].status_history = orders[o].status_history]_vars

\* C8: for any sku and any registered target rack R, when run has returned
\* after an approval the status is PACKAGE_LOADED, find_item(sku) is the
\* loading dock, and sku is neither in racks[R] nor in any other rack's
\* contents.
C8_ApprovedRunEndsAtDock ==
    \A o \in OrderIds :
        (Returned(o) /\ approved(o) /\ target[o] # None /\ target[o][1].registered) =>
            /\ orders[o].current_status = STATUS_PACKAGE_LOADED
            /\ find_item(SkuOf(o)) = Some(STATION_LOADING)
            /\ ~OnRack(SkuOf(o), target[o][1].rack)
            /\ \A Q \in DOMAIN racks : ~OnRack(SkuOf(o), Q)

\* no ledger mutation has placed sku at the loading dock
NeverAtDock(sku) ==
    /\ find_item(sku) # Some(STATION_LOADING)
    /\ \A i \in 2..Len(csv) : ~(csv[i][2] = sku /\ csv[i][3] = STATION_LOADING)

\* C9: in a run whose decision is decline no ledger mutation places the item
\* at the loading dock at any point, and when run has returned
\* find_item(sku) is the manager-audit station.
C9_DeclineStaysAtAudit ==
    \A o \in OrderIds :
        /\ ~approved(o) => NeverAtDock(SkuOf(o))
        /\ Declined(o) => Returned(o) /\ find_item(SkuOf(o)) = Some(STATION_AUDIT)

\* C9 witness: a logged run has returned after a decline, the header and its
\* four mutations in the log and the item at the audit station.
C9_Witness ==
    /\ persist_csv
    /\ Declined("ORD-1")
    /\ Returned("ORD-1")
    /\ Len(csv) = 5
    /\ find_item(SkuOf("ORD-1")) = Some(STATION_AUDIT)

\* C10: in every reachable state of an Item, from construction on, item.rack
\* is non-null if and only if item.location is the warehouse-racks station.
C10_RackIffAtRacks ==
    \A o \in OrderIds :
        (orders[o].item.rack # None) <=> (orders[o].item.location = STATION_WAREHOUSE_RACKS)


----------------------------------------------------------------------------
(* Two threads, one per Order, calling the ledger's mutators on one shared  *)
(* RackLedger. The methods take no lock, so a thread may be preempted       *)
(* between any two statements: each statement of a mutator is a step.       *)

Mutation(op, sku, rack_id, new_location, line) ==
    [op |-> op, sku |-> sku, rack_id |-> rack_id, new_location |-> new_location, line |-> line]

Idle(t) == mutating[t] = None
At(t, op, line) == mutating[t] # None /\ mutating[t][1].op = op /\ mutating[t][1].line = line
Cur(t) == mutating[t][1]
GotoLine(t, line) == mutating' = [mutating EXCEPT ![t] = Some([Cur(t) EXCEPT !.line = line])]
Return(t) == mutating' = [mutating EXCEPT ![t] = None]
Begin(t, m) ==
    /\ Idle(t)
    /\ calls < MaxMutations
    /\ calls' = calls + 1
    /\ mutating' = [mutating EXCEPT ![t] = Some(m)]
    /\ UNCHANGED <<ledgerVars, orders, pc, target, blocked, decision, configVars, now>>
ThreadFrame == UNCHANGED <<flowVars, configVars, now>>

\* a thread enters add_item_to_rack, remove_item_from_rack, update_item_location
BeginAdd(t, rack_id) == Begin(t, Mutation("add", SkuOf(t), rack_id, "", 122))
BeginRemove(t, rack_id, new_location) ==
    Begin(t, Mutation("remove", SkuOf(t), rack_id, new_location, 129))
BeginUpdate(t, new_location) == Begin(t, Mutation("update", SkuOf(t), "", new_location, 135))

\* add_item_to_rack line 122
AddRegister(t) ==
    /\ At(t, "add", 122)
    /\ racks' = registered(racks, Cur(t).rack_id)
    /\ GotoLine(t, 123)
    /\ UNCHANGED <<locations, csv>> /\ ThreadFrame

\* add_item_to_rack lines 123-124
AddAppend(t) ==
    /\ At(t, "add", 123)
    /\ racks' = IF ~InList(Cur(t).sku, racks[Cur(t).rack_id])
                THEN [racks EXCEPT ![Cur(t).rack_id] = Append(@, Cur(t).sku)]
                ELSE racks
    /\ GotoLine(t, 125)
    /\ UNCHANGED <<locations, csv>> /\ ThreadFrame

\* add_item_to_rack line 125
AddLocate(t) ==
    /\ At(t, "add", 125)
    /\ locations' = DictSet(locations, Cur(t).sku, RackLocation(Cur(t).rack_id))
    /\ GotoLine(t, 126)
    /\ UNCHANGED <<racks, csv>> /\ ThreadFrame

\* add_item_to_rack line 126
AddLog(t) ==
    /\ At(t, "add", 126)
    /\ csv' = log_csv(racks, Cur(t).sku, locations[Cur(t).sku], Some(Cur(t).rack_id))
    /\ Return(t)
    /\ UNCHANGED <<racks, locations>> /\ ThreadFrame

\* remove_item_from_rack lines 129-130
RemoveTake(t) ==
    /\ At(t, "remove", 129)
    /\ racks' = IF InList(Cur(t).sku, DictGet(racks, Cur(t).rack_id, <<>>))
                THEN [racks EXCEPT ![Cur(t).rack_id] = ListRemove(@, Cur(t).sku)]
                ELSE racks
    /\ GotoLine(t, 131)
    /\ UNCHANGED <<locations, csv>> /\ ThreadFrame

\* remove_item_from_rack line 131
RemoveLocate(t) ==
    /\ At(t, "remove", 131)
    /\ locations' = DictSet(locations, Cur(t).sku, Cur(t).new_location)
    /\ GotoLine(t, 132)
    /\ UNCHANGED <<racks, csv>> /\ ThreadFrame

\* remove_item_from_rack line 132
RemoveLog(t) ==
    /\ At(t, "remove", 132)
    /\ csv' = log_csv(racks, Cur(t).sku, Cur(t).new_location, Some(Cur(t).rack_id))
    /\ Return(t)
    /\ UNCHANGED <<racks, locations>> /\ ThreadFrame

\* update_item_location line 135
UpdateLocate(t) ==
    /\ At(t, "update", 135)
    /\ locations' = DictSet(locations, Cur(t).sku, Cur(t).new_location)
    /\ GotoLine(t, 136)
    /\ UNCHANGED <<racks, csv>> /\ ThreadFrame

\* update_item_location line 136
UpdateLog(t) ==
    /\ At(t, "update", 136)
    /\ csv' = log_csv(racks, Cur(t).sku, Cur(t).new_location, None)
    /\ Return(t)
    /\ UNCHANGED <<racks, locations>> /\ ThreadFrame

ThreadStep(t) ==
    \/ \E r \in RackIds : BeginAdd(t, r)
    \/ \E r \in RackIds, l \in NewLocations : BeginRemove(t, r, l)
    \/ \E l \in NewLocations : BeginUpdate(t, l)
    \/ AddRegister(t)
    \/ AddAppend(t)
    \/ AddLocate(t)
    \/ AddLog(t)
    \/ RemoveTake(t)
    \/ RemoveLocate(t)
    \/ RemoveLog(t)
    \/ UpdateLocate(t)
    \/ UpdateLog(t)

NextConcurrent == \E t \in OrderIds : ThreadStep(t)

SpecConcurrent == InitLedger /\ [][NextConcurrent]_vars

\* C11: with concurrent mutations of the shared ledger, in every state a
\* thread can observe, locations[sku] is 'warehouse-racks:R' if and only if
\* sku is in racks[R]: no state shows a mutation's update of racks without
\* its update of locations.
C11_MutationsAreAtomic ==
    \A sku \in SKUs, R \in AllRackIds : LocatedOnRack(sku, R) <=> OnRack(sku, R)


----------------------------------------------------------------------------
(* Longer sequences of ledger calls on two racks, counted, with the log on; *)
(* and the same with a ledger constructed again over the same file          *)

CountedRacks == {"A1", "A2"}
Counted ==
    /\ calls < MaxOps
    /\ calls' = calls + 1
    /\ UNCHANGED <<orders, pc, target, blocked, decision, auto, simulate_decline, now, mutating>>

OpAdd(sku, rack_id) ==
    /\ Counted
    /\ add_item_to_rack(sku, rack_id)
    /\ UNCHANGED persist_csv

OpRemove(sku, rack_id) ==
    /\ Counted
    /\ remove_item_from_rack(sku, rack_id, STATION_PACKING)
    /\ UNCHANGED persist_csv

OpUpdate(sku) ==
    /\ Counted
    /\ update_item_location(sku, STATION_SORTING)
    /\ UNCHANGED persist_csv

\* a RackLedger is constructed in place of the one in use
OpConstruct(persist) ==
    /\ Counted
    /\ RackLedger(persist)

NextArrivals ==
    \/ \E s \in SKUs, r \in CountedRacks : OpAdd(s, r)
    \/ \E s \in SKUs, r \in CountedRacks : OpRemove(s, r)
    \/ \E s \in SKUs : OpUpdate(s)

InitLogged == InitLedger /\ persist_csv

SpecArrivals == InitLogged /\ [][NextArrivals]_vars

NextLog ==
    \/ NextArrivals
    \/ \E p \in BOOLEAN : OpConstruct(p)

SpecLog == InitLogged /\ [][NextLog]_vars

\* the data rows of the log that record sku arriving on rack R
ArrivalRows(sku, R) ==
    {i \in 2..Len(csv) : csv[i][2] = sku /\ csv[i][3] = RackLocation(R)}
\* the row of the first arrival of sku on rack R
FirstArrival(sku, R) ==
    CHOOSE i \in ArrivalRows(sku, R) : \A j \in ArrivalRows(sku, R) : i <= j
NoDuplicates(s) == \A i, j \in 1..Len(s) : s[i] = s[j] => i = j
\* add_item_to_rack(sku, R) repeated right after itself changes neither map
AddIsIdempotent ==
    \A sku \in SKUs, R \in CountedRacks :
        (OnRack(sku, R) /\ LocatedOnRack(sku, R) /\ add_item_to_rack(sku, R)) =>
            racks' = racks /\ locations' = locations

\* C12: after any sequence of ledger operations every rack's contents hold no
\* sku twice and list the skus in the order of their first arrival on that
\* rack; add_item_to_rack(sku, R) called a second time leaves racks and
\* locations as after the first call.
C12_OrderOfFirstArrival ==
    /\ [](\A R \in DOMAIN racks :
            /\ NoDuplicates(racks[R])
            /\ \A i, j \in 1..Len(racks[R]) :
                  i < j => FirstArrival(racks[R][i], R) < FirstArrival(racks[R][j], R))
    /\ [][AddIsIdempotent]_vars

\* s with the element x taken out
Without(s, x) == SelectSeq(s, LAMBDA y : y # x)

\* C12 as amended: every rack's contents hold no sku twice and list the skus
\* in the order of the add_item_to_rack calls that placed them there: an add
\* of a sku that is on the rack changes nothing, an add of a sku that is not
\* puts it last (also when it was there before and was removed), a removal
\* keeps the order of the others; a second identical add leaves racks and
\* locations as after the first.
C12_OrderOfPlacement ==
    /\ [](\A R \in DOMAIN racks : NoDuplicates(racks[R]))
    /\ [][AddIsIdempotent]_vars
    /\ [][\A sku \in SKUs, R \in CountedRacks :
            /\ add_item_to_rack(sku, R) =>
                  /\ racks'[R] = IF OnRack(sku, R) THEN racks[R]
                                 ELSE Append(DictGet(racks, R, <<>>), sku)
                  /\ \A Q \in DOMAIN racks \ {R} : racks'[Q] = racks[Q]
            /\ remove_item_from_rack(sku, R, STATION_PACKING) =>
                  /\ DOMAIN racks' = DOMAIN racks
                  /\ \A Q \in DOMAIN racks :
                        racks'[Q] = IF Q = R THEN Without(racks[Q], sku) ELSE racks[Q]
            /\ update_item_location(sku, STATION_SORTING) => racks' = racks]_vars

\* C12 witness: SKU-1 came to rack A1 first, was removed and added again, and
\* now stands after SKU-2.
C12_Witness ==
    /\ Len(csv) = 5
    /\ csv[2][2] = "SKU-1" /\ csv[2][3] = RackLocation("A1")
    /\ csv[3][2] = "SKU-2" /\ csv[3][3] = RackLocation("A1")
    /\ csv[4][2] = "SKU-1" /\ csv[4][3] = STATION_PACKING
    /\ csv[5][2] = "SKU-1" /\ csv[5][3] = RackLocation("A1")
    /\ racks["A1"] = <<"SKU-2", "SKU-1">>

\* the last row of the log after a step records sku at its new location
LoggedLast(sku) ==
    /\ Len(csv') = Len(csv) + 1
    /\ csv'[Len(csv')][2] = sku
    /\ sku \in DOMAIN locations'
    /\ csv'[Len(csv')][3] = locations'[sku]

\* C13: the log is append-only and mirrors the mutations: with the log on,
\* every add_item_to_rack, remove_item_from_rack and update_item_location
\* appends exactly one row with the call's sku and resulting location, and no
\* step of the ledger, the construction of a ledger included, removes or
\* rewrites a row.
C13_LogIsAppendOnly ==
    [][/\ IsPrefix(csv, csv')
       /\ \A sku \in SKUs, R \in CountedRacks :
            /\ (persist_csv /\ add_item_to_rack(sku, R)) => LoggedLast(sku)
            /\ (persist_csv /\ remove_item_from_rack(sku, R, STATION_PACKING)) => LoggedLast(sku)
            /\ (persist_csv /\ update_item_location(sku, STATION_SORTING)) => LoggedLast(sku)]_vars


----------------------------------------------------------------------------
(* The approval prompt *)

\* the input lines that read as approve and as decline at the prompt
ApproveLines == {<<"A">>, <<" ", "a">>}
DeclineLines == {<<"d">>, <<"D", " ">>}
Status(o) == orders[o].current_status
History(o) == orders[o].status_history
\* the order o after status st is recorded at the current time
Recorded(o, st) ==
    [orders[o] EXCEPT !.current_status = st,
                      !.status_history = Append(@, <<now, st>>)]

\* C14: in interactive mode an input line other than approve or decline
\* changes no status: the order stays in AWAITING_APPROVAL with its history
\* unchanged and the prompt open; approve records APPROVAL_GRANTED, decline
\* records APPROVAL_DECLINED, and nothing else leaves AWAITING_APPROVAL.
C14_InvalidInputReprompts ==
    /\ [](\A o \in OrderIds :
            (pc[o] = "decide") =>
                Status(o) = STATUS_AWAITING_APPROVAL /\ blocked[o] = "decision")
    /\ [][\A o \in OrderIds, raw \in Inputs :
            RunDecide(o, raw) =>
                /\ raw \in ApproveLines =>
                      orders'[o] = Recorded(o, STATUS_APPROVAL_GRANTED) /\ pc'[o] = "load"
                /\ raw \in DeclineLines =>
                      orders'[o] = Recorded(o, STATUS_APPROVAL_DECLINED) /\ pc'[o] = "returned"
                /\ raw \notin ApproveLines \cup DeclineLines =>
                      /\ orders' = orders
                      /\ pc'[o] = "decide"
                      /\ blocked'[o] = "decision"]_vars

\* C14 witness: the line "x" was entered and the order still awaits approval
\* at the open prompt.
C14_Witness ==
    /\ decision["ORD-1"] = Some(<<"X">>)
    /\ pc["ORD-1"] = "decide"
    /\ blocked["ORD-1"] = "decision"
    /\ Status("ORD-1") = STATUS_AWAITING_APPROVAL
    /\ Len(History("ORD-1")) = 5

\* C15: move_to_packing_station on an order whose item has no rack sets
\* locations[sku] to the packing station and the status to READY_TO_PACK and
\* leaves the registered racks and their contents unchanged; the rack
\* "UNKNOWN" is not registered.
C15_MoveWithoutRack ==
    [][\A o \in OrderIds :
        (orders[o].item.rack = None /\ CallMove(o)) =>
            /\ racks' = racks
            /\ "UNKNOWN" \notin DOMAIN racks'
            /\ locations' = DictSet(locations, SkuOf(o), STATION_PACKING)
            /\ orders'[o] = [Recorded(o, STATUS_READY_TO_PACK) EXCEPT
                                !.item.location = STATION_PACKING]]_vars

\* C15 witness: move_to_packing_station was the first call on a fresh order.
C15_Witness ==
    /\ pc["ORD-1"] = "idle"
    /\ calls = 1
    /\ target["ORD-1"] = None
    /\ Status("ORD-1") = STATUS_READY_TO_PACK
    /\ Len(History("ORD-1")) = 1
    /\ find_item(SkuOf("ORD-1")) = Some(STATION_PACKING)

\* C16: label_package leaves racks, locations and the log as they were, so
\* the ledger still reports the item at the packing station; of the order it
\* changes only the status and history, the item's barcode and the label.
C16_LabelLeavesLedger ==
    [][\A o \in OrderIds :
        RunLabel(o) =>
            /\ racks' = racks /\ locations' = locations /\ csv' = csv
            /\ find_item(SkuOf(o))' = Some(STATION_PACKING)
            /\ \E code \in Barcodes :
                 orders'[o] = [Recorded(o, STATUS_PACKAGE_LABELLED) EXCEPT
                                  !.item.barcode = Some(code),
                                  !.label = Some(ShippingLabel("Dallas TX", "Seattle WA", code))]
            /\ \A q \in OrderIds \ {o} : orders'[q] = orders[q]]_vars

\* C16 witness: the package is labelled, the log is on, and the ledger has
\* the item at the packing station.
C16_Witness ==
    /\ pc["ORD-1"] = "sort"
    /\ persist_csv
    /\ Status("ORD-1") = STATUS_PACKAGE_LABELLED
    /\ orders["ORD-1"].label # None
    /\ find_item(SkuOf("ORD-1")) = Some(STATION_PACKING)
    /\ Len(csv) = 3

\* C17: register_rack(rack_id) creates an absent rack with empty contents and
\* leaves a registered rack's contents, every other rack and all locations
\* unchanged.
C17_RegisterIsIdempotent ==
    [][\A r \in RackIds :
        LedgerRegister(r) =>
            /\ DOMAIN racks' = DOMAIN racks \cup {r}
            /\ \A q \in DOMAIN racks : racks'[q] = racks[q]
            /\ r \notin DOMAIN racks => racks'[r] = <<>>
            /\ locations' = locations]_vars

\* C17 witness: rack A1 holds the one sku ever added and rack A2 is
\* registered with empty contents.
C17_Witness ==
    /\ persist_csv
    /\ Len(csv) = 2
    /\ DOMAIN racks = {"A1", "A2"}
    /\ Len(racks["A1"]) = 1
    /\ racks["A2"] = <<>>

\* the data rows of the log about sku
RowsOf(sku) == {i \in 2..Len(csv) : csv[i][2] = sku}
LastRowOf(sku) == CHOOSE i \in RowsOf(sku) : \A j \in RowsOf(sku) : j <= i
\* the step is a ledger mutation for sku
Touched(sku) ==
    \/ \E r \in RackIds : LedgerAdd(sku, r)
    \/ \E r \in RackIds, l \in NewLocations : LedgerRemove(sku, r, l)
    \/ \E l \in NewLocations : LedgerUpdate(sku, l)

\* C18: find_item(sku) returns the location set by the latest ledger mutation
\* for sku, and the not-found result None for a sku no mutation has touched.
C18_FindItemIsLatest ==
    /\ [](\A sku \in SKUs :
            persist_csv =>
                find_item(sku) = IF RowsOf(sku) = {} THEN None
                                 ELSE Some(csv[LastRowOf(sku)][3]))
    /\ [][\A sku \in SKUs :
            /\ \A r \in RackIds :
                 LedgerAdd(sku, r) => find_item(sku)' = Some("warehouse-racks:" \o r)
            /\ \A r \in RackIds, l \in NewLocations :
                 LedgerRemove(sku, r, l) => find_item(sku)' = Some(l)
            /\ \A l \in NewLocations :
                 LedgerUpdate(sku, l) => find_item(sku)' = Some(l)
            /\ ~Touched(sku) => find_item(sku)' = find_item(sku)]_vars

\* C18 witness: two mutations moved SKU-1, the ledger has it where the later
\* one put it, and SKU-2 is not found.
C18_Witness ==
    /\ persist_csv
    /\ Len(csv) = 3
    /\ csv[2][2] = "SKU-1" /\ csv[3][2] = "SKU-1"
    /\ csv[2][3] # csv[3][3]
    /\ find_item("SKU-1") = Some(csv[3][3])
    /\ find_item("SKU-2") = None


----------------------------------------------------------------------------
(* One run statement by statement: pc is "L" and the line of                *)
(* warehouse_flow.py the run executes next                                  *)

StmtFrame == UNCHANGED <<target, decision, calls, configVars, now, mutating>>

\* order.item.location = location, lines 203, 211, 236
ItemStmt(o, at, next, location) ==
    /\ Ready(o, at)
    /\ orders' = [orders EXCEPT ![o].item.location = location]
    /\ Goto(o, next)
    /\ UNCHANGED <<ledgerVars, blocked>>
    /\ StmtFrame

\* self.ledger.update_item_location(order.item.sku, location), lines 202, 210, 235
LedgerStmt(o, at, next, location) ==
    /\ Ready(o, at)
    /\ update_item_location(SkuOf(o), location)
    /\ Goto(o, next)
    /\ UNCHANGED <<orders, blocked>>
    /\ StmtFrame

\* order.update_status(status) and the rest of the method, which ends in
\* _wait_next()
StatusStmt(o, at, next, status) ==
    /\ Ready(o, at)
    /\ orders' = [orders EXCEPT ![o] = update_status(@, status)]
    /\ wait_next(o)
    /\ Goto(o, next)
    /\ UNCHANGED ledgerVars
    /\ StmtFrame

\* run is called with initial_rack; receive_order_and_locate_item lines 172-173
S172(o, initial_rack) ==
    /\ Ready(o, "idle")
    /\ target' = [target EXCEPT ![o] = Some(RunArgs(initial_rack))]
    /\ orders' = [orders EXCEPT ![o].item.location = STATION_WAREHOUSE_RACKS,
                                ![o].item.rack = Some(initial_rack)]
    /\ Goto(o, "L174")
    /\ UNCHANGED <<ledgerVars, blocked, decision, calls, configVars, now, mutating>>

S174(o) ==
    /\ Ready(o, "L174")
    /\ add_item_to_rack(SkuOf(o), target[o][1].rack)
    /\ Goto(o, "L175")
    /\ UNCHANGED <<orders, blocked>>
    /\ StmtFrame

S175(o) == StatusStmt(o, "L175", "L183", STATUS_ITEM_IN_PROCESS)

\* move_to_packing_station lines 181-183
S183(o) ==
    /\ Ready(o, "L183")
    /\ remove_item_from_rack(SkuOf(o),
          IF Truthy(orders[o].item.rack) THEN orders[o].item.rack[1] ELSE "UNKNOWN",
          STATION_PACKING)
    /\ Goto(o, "L184")
    /\ UNCHANGED <<orders, blocked>>
    /\ StmtFrame

\* lines 184-185
S184(o) ==
    /\ Ready(o, "L184")
    /\ orders' = [orders EXCEPT ![o].item.rack = None,
                                ![o].item.location = STATION_PACKING]
    /\ Goto(o, "L186")
    /\ UNCHANGED <<ledgerVars, blocked>>
    /\ StmtFrame

S186(o) == StatusStmt(o, "L186", "L193", STATUS_READY_TO_PACK)

\* label_package lines 193-195
S193(o) ==
    /\ Ready(o, "L193")
    /\ \E code \in Barcodes :
         orders' = [orders EXCEPT
                       ![o].item.barcode = Some(code),
                       ![o].label = Some(ShippingLabel("Dallas TX", "Seattle WA", code))]
    /\ Goto(o, "L196")
    /\ UNCHANGED <<ledgerVars, blocked>>
    /\ StmtFrame

S196(o) == StatusStmt(o, "L196", "L202", STATUS_PACKAGE_LABELLED)

S202(o) == LedgerStmt(o, "L202", "L203", STATION_SORTING)
S203(o) == ItemStmt(o, "L203", "L204", STATION_SORTING)
S204(o) == StatusStmt(o, "L204", "L210", STATUS_READY_TO_BE_PICKED)

S210(o) == LedgerStmt(o, "L210", "L211", STATION_AUDIT)
S211(o) == ItemStmt(o, "L211", "L212", STATION_AUDIT)

\* manager_approval lines 212-220: the status, and the decision in auto mode
S212(o) ==
    /\ Ready(o, "L212")
    /\ orders' = [orders EXCEPT ![o] = update_status(@, STATUS_AWAITING_APPROVAL)]
    /\ decision' = [decision EXCEPT ![o] =
                       IF auto THEN Some(IF simulate_decline THEN KeyD ELSE KeyA) ELSE None]
    /\ blocked' = [blocked EXCEPT ![o] = IF auto THEN "none" ELSE "decision"]
    /\ Goto(o, IF auto THEN "L224" ELSE "L222")
    /\ UNCHANGED <<ledgerVars, target, calls, configVars, now, mutating>>

\* lines 221-222: one input line at the prompt
S222(o, raw) ==
    /\ pc[o] = "L222"
    /\ blocked[o] = "decision"
    /\ decision' = [decision EXCEPT ![o] = Some(read_decision(raw))]
    /\ IF read_decision(raw) \in {KeyA, KeyD}
       THEN Goto(o, "L224") /\ blocked' = [blocked EXCEPT ![o] = "none"]
       ELSE UNCHANGED <<pc, blocked>>
    /\ UNCHANGED <<ledgerVars, orders, target, calls, configVars, now, mutating>>

\* lines 224-231, and run lines 249-253
S224(o) ==
    /\ Ready(o, "L224")
    /\ orders' = [orders EXCEPT ![o] = decided(@, decision[o][1])]
    /\ IF after_approval(decision[o][1]) = "load"
       THEN Goto(o, "L235") /\ wait_next(o)
       ELSE Goto(o, "returned") /\ UNCHANGED blocked
    /\ UNCHANGED ledgerVars
    /\ StmtFrame

\* load_to_truck without its ledger call
S235_skipped(o) ==
    /\ Ready(o, "L235")
    /\ Goto(o, "L236")
    /\ UNCHANGED <<ledgerVars, orders, blocked>>
    /\ StmtFrame

S235(o) == LedgerStmt(o, "L235", "L236", STATION_LOADING)
S236(o) == ItemStmt(o, "L236", "L237", STATION_LOADING)

\* line 237; load_to_truck does not call _wait_next
S237(o) ==
    /\ Ready(o, "L237")
    /\ orders' = [orders EXCEPT ![o] = update_status(@, STATUS_PACKAGE_LOADED)]
    /\ Goto(o, "returned")
    /\ UNCHANGED <<ledgerVars, blocked>>
    /\ StmtFrame

StmtStep(o) ==
    \/ \E r \in RackIds : S172(o, r)
    \/ S174(o) \/ S175(o)
    \/ S183(o) \/ S184(o) \/ S186(o)
    \/ S193(o) \/ S196(o)
    \/ S202(o) \/ S203(o) \/ S204(o)
    \/ S210(o) \/ S211(o) \/ S212(o)
    \/ \E raw \in Inputs : S222(o, raw)
    \/ S224(o)
    \/ S235(o) \/ S236(o) \/ S237(o)
    \/ Proceed(o)

NextStatements ==
    \/ \E r \in RackIds : SetupRegister(r)
    \/ StmtStep("ORD-1")

SpecStatements == InitFree /\ [][NextStatements]_vars

\* where the ledger has the sku of order o when its status is status
LedgerPlace(o, status) ==
    CASE status = STATUS_ITEM_IN_PROCESS -> "warehouse-racks:" \o target[o][1].rack
      [] status \in {STATUS_READY_TO_PACK, STATUS_PACKAGE_LABELLED} -> STATION_PACKING
      [] status = STATUS_READY_TO_BE_PICKED -> STATION_SORTING
      [] status \in {STATUS_AWAITING_APPROVAL, STATUS_APPROVAL_GRANTED,
                     STATUS_APPROVAL_DECLINED} -> STATION_AUDIT
      [] status = STATUS_PACKAGE_LOADED -> STATION_LOADING
\* item.location when the status is status
ItemPlace(status) ==
    IF status = STATUS_ITEM_IN_PROCESS THEN STATION_WAREHOUSE_RACKS
    ELSE LedgerPlace("ORD-1", status)

\* C19: in one run of a fresh order, at every statement that records a
\* status, the ledger location of the sku and item.location agree with the
\* recorded status before the statement and after it: the ledger mutation of
\* a transition comes before its status.
C19_LedgerBeforeStatus ==
    [][\A o \in OrderIds :
        History(o)' # History(o) =>
            /\ Len(History(o)') = Len(History(o)) + 1
            /\ find_item(SkuOf(o)) = Some(LedgerPlace(o, Status(o)'))
            /\ orders[o].item.location = ItemPlace(Status(o)')
            /\ find_item(SkuOf(o))' = Some(LedgerPlace(o, Status(o)'))
            /\ orders'[o].item.location = ItemPlace(Status(o)')]_vars

\* C19 witness: the run has recorded PACKAGE_LOADED as its seventh status and
\* the ledger and the item are at the loading dock.
C19_Witness ==
    /\ pc["ORD-1"] = "returned"
    /\ Status("ORD-1") = STATUS_PACKAGE_LOADED
    /\ Len(History("ORD-1")) = 7
    /\ find_item(SkuOf("ORD-1")) = Some(STATION_LOADING)
    /\ orders["ORD-1"].item.location = STATION_LOADING


----------------------------------------------------------------------------
(* Two orders with distinct skus over one ledger, each processed by one     *)
(* call of run, their transitions interleaved                               *)

NextMulti ==
    \/ \E r \in RackIds : SetupRegister(r)
    \/ \E o \in OrderIds : RunStep(o)

\* the log plays no part in the order of the transitions: it is off
InitMulti == InitFree /\ ~persist_csv

SpecMulti == InitMulti /\ [][NextMulti]_vars

\* C20: for orders with distinct skus over one ledger, each processed by one
\* run, under any interleaving of their transitions, every sku is in the
\* contents of at most one rack, and is in racks[R] exactly when
\* locations[sku] is "warehouse-racks:R".
C20_RunsKeepViewsAgreeing ==
    \A sku \in SKUs :
        /\ \A R, Q \in DOMAIN racks : OnRack(sku, R) /\ OnRack(sku, Q) => R = Q
        /\ \A R \in AllRackIds : OnRack(sku, R) <=> LocatedOnRack(sku, R)


----------------------------------------------------------------------------
(* Termination of run: the operator answers every prompt, and at the        *)
(* approval prompt eventually enters a line that reads as A or D            *)

\* the input lines the loop of manager_approval line 221 ends on
ValidLines == {raw \in Inputs : read_decision(raw) \in {KeyA, KeyD}}

\* the operator enters a valid decision at the approval prompt
ValidDecide(o) == \E raw \in ValidLines : RunDecide(o, raw)

FairSpecAnswered ==
    /\ Init
    /\ [][NextRun]_vars
    /\ WF_vars(RunStep("ORD-1"))
    /\ WF_vars(ValidDecide("ORD-1"))

\* C21: every call of run returns, given that each pacing prompt is answered
\* and a valid decision is eventually entered (in auto mode with no such
\* premise), and on return current_status is PACKAGE_LOADED or
\* APPROVAL_DECLINED.
C21_RunTerminates ==
    \A o \in OrderIds :
        /\ (pc[o] # "idle") ~> Returned(o)
        /\ [](Returned(o) =>
                Status(o) \in {STATUS_PACKAGE_LOADED, STATUS_APPROVAL_DECLINED})

\* C21 witness: an interactive run has returned after a decline entered at
\* the prompt, with all six statuses of the decline path recorded.
C21_Witness ==
    /\ ~auto
    /\ pc["ORD-1"] = "returned"
    /\ blocked["ORD-1"] = "none"
    /\ decision["ORD-1"] = Some(KeyD)
    /\ Status("ORD-1") = STATUS_APPROVAL_DECLINED
    /\ Len(History("ORD-1")) = 6

====
